---------------------------- MODULE Spec2Model ----------------------------
(***************************************************************************)
(* Model of the tua_lexer crate: the Cursor (cursor.rs), the classifiers,  *)
(* the dispatcher advance_token and its sub-lexers, the token iterator     *)
(* tokenize and the strip_hashbang utility (lib.rs).                       *)
(*                                                                         *)
(* A character is its Unicode scalar value (a natural number); a &str is a *)
(* sequence of scalar values and its byte length is the sum of the UTF-8   *)
(* widths of its characters.                                               *)
(***************************************************************************)
EXTENDS Naturals, Integers, Sequences, FiniteSets

VARIABLES
    input,      \* the &str handed to tokenize / strip_hashbang
    cursor,     \* run -> the Cursor owned by that run's closure
    tokens,     \* run -> the tokens that run's iterator has yielded so far
    last,       \* run -> what the latest call of next() returned
    hashbang    \* the result of strip_hashbang(input), once it has been called

vars == <<input, cursor, tokens, last, hashbang>>

---------------------------------------------------------------------------
(* Characters named in the source.                                         *)

EOF_CHAR == 0
CH_TAB == 9
CH_LF == 10
CH_VT == 11
CH_FF == 12
CH_CR == 13
CH_SPACE == 32
CH_BANG == 33
CH_DQUOTE == 34
CH_HASH == 35
CH_PERCENT == 37
CH_AMP == 38
CH_SQUOTE == 39
CH_LPAREN == 40
CH_RPAREN == 41
CH_STAR == 42
CH_PLUS == 43
CH_COMMA == 44
CH_MINUS == 45
CH_DOT == 46
CH_SLASH == 47
CH_0 == 48
CH_9 == 57
CH_COLON == 58
CH_SEMI == 59
CH_LT == 60
CH_EQ == 61
CH_GT == 62
CH_UPPER_A == 65
CH_UPPER_E == 69
CH_UPPER_F == 70
CH_UPPER_P == 80
CH_UPPER_X == 88
CH_LBRACKET == 91
CH_BACKSLASH == 92
CH_RBRACKET == 93
CH_CARET == 94
CH_a == 97
CH_e == 101
CH_f == 102
CH_p == 112
CH_x == 120
CH_z == 122
CH_LBRACE == 123
CH_PIPE == 124
CH_RBRACE == 125
CH_TILDE == 126

\* Option<T>.
None == [some |-> FALSE]
Some(v) == [some |-> TRUE, val |-> v]

---------------------------------------------------------------------------
(* Bounds of the model: the longest input of each family of inputs.        *)

GenLen == 2
NumLen == 3
BrLen == 4
StrLen == 3
HbLen == 3
TwoLen == 3

\* Inputs that are not ASCII: U+0080 and U+0085, two C1 control characters,
\* and U+00E9 (2 bytes), U+20AC and U+3000, the ideographic space (3 bytes),
\* U+1F600 (4 bytes).
NonAscii == {128, 133, 233, 8364, 12288, 128512}

\* ASCII control characters that are no whitespace, NUL aside.
Controls == {1, 8, 14, 31, 127}

\* Every character of the model's inputs.
Char ==
    {EOF_CHAR, CH_TAB, CH_LF, CH_VT, CH_FF, CH_CR, CH_SPACE, CH_BANG, CH_DQUOTE,
     CH_HASH, CH_PERCENT, CH_AMP, CH_SQUOTE, CH_LPAREN, CH_RPAREN, CH_STAR,
     CH_PLUS, CH_COMMA, CH_MINUS, CH_DOT, CH_SLASH, CH_0, CH_0 + 1, CH_9,
     CH_COLON, CH_SEMI, CH_LT, CH_EQ, CH_GT, CH_UPPER_A, CH_UPPER_E,
     CH_UPPER_F, CH_UPPER_F + 1, CH_UPPER_P, CH_UPPER_X, CH_LBRACKET,
     CH_BACKSLASH, CH_RBRACKET, CH_CARET, CH_a, CH_e, CH_f, CH_f + 1, CH_p,
     CH_x, CH_z, CH_LBRACE, CH_PIPE, CH_RBRACE, CH_TILDE}
    \cup Controls \cup NonAscii

\* All strings over alphabet A of at most n characters.
StrUpTo(A, n) == UNION {[1..k -> A] : k \in 0..n}

\* Every character alone, and before and after a letter.
CharInputs == {<<c>> : c \in Char} \cup {<<CH_a, c>> : c \in Char}
    \cup {<<c, CH_a>> : c \in Char}

\* Identifiers: the keywords `end` and `if` before `a0`, a name that holds
\* U+00E9 and a digit and ends at a `.`, and a name that is a space in
\* Unicode but not in ASCII (U+3000) next to U+0085.
IdentExamples ==
    {<<CH_e, CH_a + 13, CH_a + 3>>,
     <<CH_a + 8, CH_f, CH_SPACE, CH_a, CH_0>>,
     <<CH_a, 233, CH_9, CH_DOT, CH_x>>,
     <<12288, 133, CH_TAB, CH_a>>}

\* Whitespace: the six whitespace characters in a row before U+3000 and a
\* space; and a space between U+0085 and U+0001.
WsExamples ==
    {<<CH_TAB, CH_LF, CH_VT, CH_FF, CH_CR, CH_SPACE, 12288, CH_SPACE>>,
     <<133, CH_SPACE, 1>>}

\* Operators of several characters and lookahead: `...`, `a..x`, `::`, `~=`,
\* `<=`, `>=`, `==`, `//`, `-[..`, `[-0`, `[]`, `-` before NUL, and every
\* punctuation character in a row.
PunctExamples ==
    {<<CH_DOT, CH_DOT, CH_DOT>>,
     <<CH_a, CH_DOT, CH_DOT, CH_x>>,
     <<CH_COLON, CH_COLON>>,
     <<CH_TILDE, CH_EQ>>,
     <<CH_LT, CH_EQ>>,
     <<CH_GT, CH_EQ>>,
     <<CH_EQ, CH_EQ>>,
     <<CH_SLASH, CH_SLASH>>,
     <<CH_MINUS, CH_LBRACKET, CH_DOT, CH_DOT>>,
     <<CH_LBRACKET, CH_MINUS, CH_0>>,
     <<CH_LBRACKET, CH_RBRACKET>>,
     <<CH_MINUS, EOF_CHAR>>,
     <<CH_SEMI, CH_COMMA, CH_DOT, CH_LPAREN, CH_RPAREN, CH_LBRACE, CH_RBRACE,
       CH_LBRACKET, CH_RBRACKET, CH_HASH, CH_TILDE, CH_COLON, CH_EQ, CH_LT,
       CH_GT, CH_MINUS, CH_PLUS, CH_STAR, CH_SLASH, CH_CARET, CH_PERCENT>>}

\* Punctuation, identifiers, control and multi-byte characters in any order.
GenAlpha == {EOF_CHAR, CH_LF, CH_SPACE, CH_AMP, CH_MINUS, CH_DOT, CH_0, CH_EQ,
             CH_LBRACKET, CH_BACKSLASH, CH_RBRACKET, CH_a, CH_x, CH_DQUOTE, 127,
             233, 12288}
GenInputs == StrUpTo(GenAlpha, GenLen) \cup IdentExamples \cup WsExamples
    \cup PunctExamples

\* Numbers whose exponent has no digit: `314.16e` and `0xA23p-`.  Markers of
\* the other base, second markers and second dots: `0x0.1E-1p1`, `0xe.ep1e1`,
\* `0x1p1a`, `0X1.P+1p1`, `1e1e1`, `1.1.1`, `0x1.1.1`, `1.1p1`, `1E-1P`.
NumExamples ==
    {<<CH_0 + 3, CH_0 + 1, CH_0 + 4, CH_DOT, CH_0 + 1, CH_0 + 6, CH_e>>,
     <<CH_0, CH_x, CH_UPPER_A, CH_0 + 2, CH_0 + 3, CH_p, CH_MINUS>>,
     <<CH_0, CH_x, CH_0, CH_DOT, CH_0 + 1, CH_UPPER_E, CH_MINUS, CH_0 + 1, CH_p,
       CH_0 + 1>>,
     <<CH_0, CH_x, CH_e, CH_DOT, CH_e, CH_p, CH_0 + 1, CH_e, CH_0 + 1>>,
     <<CH_0, CH_x, CH_0 + 1, CH_p, CH_0 + 1, CH_a>>,
     <<CH_0, CH_UPPER_X, CH_0 + 1, CH_DOT, CH_UPPER_P, CH_PLUS, CH_0 + 1, CH_p,
       CH_0 + 1>>,
     <<CH_0 + 1, CH_e, CH_0 + 1, CH_e, CH_0 + 1>>,
     <<CH_0 + 1, CH_DOT, CH_0 + 1, CH_DOT, CH_0 + 1>>,
     <<CH_0, CH_x, CH_0 + 1, CH_DOT, CH_0 + 1, CH_DOT, CH_0 + 1>>,
     <<CH_0 + 1, CH_DOT, CH_0 + 1, CH_p, CH_0 + 1>>,
     <<CH_0 + 1, CH_UPPER_E, CH_MINUS, CH_0 + 1, CH_UPPER_P>>}

\* Numeric literals: digits, the hexadecimal prefix, `.`, exponent markers
\* and signs, and a letter that is no hexadecimal digit.
NumAlpha == {CH_0, CH_0 + 1, CH_x, CH_DOT, CH_e, CH_p, CH_MINUS}
NumInputs == StrUpTo(NumAlpha, NumLen)
    \cup {<<CH_0, c>> \o s :
            c \in {CH_x, CH_UPPER_X},
            s \in StrUpTo({CH_UPPER_A, CH_DOT, CH_UPPER_P, CH_UPPER_E,
                           CH_f + 1, CH_PLUS}, NumLen - 2)}
    \cup NumExamples

\* Long brackets of level 1 and 2: `[=[]=]`, and with a closer of another
\* level before the real one `[=[]]=]`, `[=[]==]=]a`, `[==[]=]]==]`,
\* `--[=[]]=]`, and the unterminated `--[=[ ]]` followed by a line feed; and
\* the short comments `---[[a]]` and `--`, NUL, `a` with their line feeds.
BrExamples ==
    {<<CH_LBRACKET, CH_EQ, CH_LBRACKET, CH_RBRACKET, CH_EQ, CH_RBRACKET>>,
     <<CH_LBRACKET, CH_EQ, CH_LBRACKET, CH_RBRACKET, CH_RBRACKET, CH_EQ, CH_RBRACKET>>,
     <<CH_LBRACKET, CH_EQ, CH_LBRACKET, CH_RBRACKET, CH_EQ, CH_EQ, CH_RBRACKET, CH_EQ,
       CH_RBRACKET, CH_a>>,
     <<CH_LBRACKET, CH_EQ, CH_EQ, CH_LBRACKET, CH_RBRACKET, CH_EQ, CH_RBRACKET,
       CH_RBRACKET, CH_EQ, CH_EQ, CH_RBRACKET>>,
     <<CH_MINUS, CH_MINUS, CH_LBRACKET, CH_EQ, CH_LBRACKET, CH_RBRACKET, CH_RBRACKET,
       CH_EQ, CH_RBRACKET>>,
     <<CH_MINUS, CH_MINUS, CH_LBRACKET, CH_EQ, CH_LBRACKET, CH_SPACE, CH_RBRACKET,
       CH_RBRACKET, CH_LF>>,
     <<CH_MINUS, CH_MINUS, CH_MINUS, CH_LBRACKET, CH_LBRACKET, CH_a, CH_RBRACKET,
       CH_RBRACKET, CH_LF>>,
     <<CH_MINUS, CH_MINUS, EOF_CHAR, CH_a, CH_LF>>}

\* Long brackets, as strings and behind the `--` of a comment.
BrAlpha == {CH_LBRACKET, CH_RBRACKET, CH_EQ, CH_a, CH_LF}
BrInputs ==
    {p \o s : p \in {<<CH_LBRACKET>>, <<CH_MINUS, CH_MINUS, CH_LBRACKET>>},
              s \in StrUpTo(BrAlpha, BrLen)}
    \cup {<<CH_MINUS, CH_MINUS>> \o s : s \in StrUpTo(BrAlpha \cup {CH_MINUS}, BrLen - 2)}
    \cup BrExamples

\* Short strings with every kind of escape: `'\'\n\\'"\` with a line feed for
\* n, and `'a\z   b'`, `"\z \n\t'"` with a line feed and a tab in the run.
StrExamples ==
    {<<CH_SQUOTE, CH_BACKSLASH, CH_SQUOTE, CH_BACKSLASH, CH_LF, CH_BACKSLASH,
       CH_BACKSLASH, CH_SQUOTE, CH_DQUOTE, CH_BACKSLASH>>,
     <<CH_SQUOTE, CH_a, CH_BACKSLASH, CH_z, CH_SPACE, CH_SPACE, CH_SPACE, CH_a + 1,
       CH_SQUOTE>>,
     <<CH_DQUOTE, CH_BACKSLASH, CH_z, CH_SPACE, CH_LF, CH_TAB, CH_SQUOTE, CH_DQUOTE>>}

\* Short strings: an opening quote and then quotes, escapes, line feeds, NUL.
StrAlpha == {CH_SQUOTE, CH_DQUOTE, CH_BACKSLASH, CH_z, CH_LF, CH_SPACE, CH_a,
             EOF_CHAR, 233}
StrInputs == {<<q>> \o s : q \in {CH_SQUOTE, CH_DQUOTE}, s \in StrUpTo(StrAlpha, StrLen)}
    \cup StrExamples

\* Hashbang lines.
HbAlpha == {CH_HASH, CH_BANG, CH_LF, CH_CR, CH_SPACE, CH_a, 233}
HbInputs == StrUpTo(HbAlpha, HbLen)
    \cup {<<CH_HASH, CH_BANG>> \o s : s \in StrUpTo(HbAlpha \ {CH_HASH, CH_BANG}, HbLen)}

Inputs == CharInputs \cup GenInputs \cup NumInputs \cup BrInputs \cup StrInputs
    \cup HbInputs

\* Texts that start with `[`, to be lexed as they are and behind `--`.
CmtLen == 5
CmtInputs ==
    {<<CH_LBRACKET>> \o s : s \in StrUpTo({CH_LBRACKET, CH_RBRACKET, CH_EQ, CH_a}, CmtLen)}
    \cup {s \in BrExamples : s[1] = CH_LBRACKET}

\* The texts the operations of a Cursor are called on, one by one.
CurLen == 3
CursorInputs == StrUpTo({EOF_CHAR, CH_LF, CH_EQ, 233}, CurLen)

\* The inputs two interleaved runs are checked on.
TwoInputs ==
    StrUpTo({CH_MINUS, CH_0, CH_x, CH_LBRACKET, CH_SQUOTE, CH_a, CH_LF, 233}, TwoLen)

\* The longest input of the model; no loop of the lexer runs more often.
MaxInputLen == 4 + GenLen + NumLen + BrLen + StrLen + HbLen + TwoLen + CmtLen

---------------------------------------------------------------------------
(* UTF-8.                                                                  *)

\* Mutant: lengths count characters.
len_utf8_chars(c) == 1

\* char::len_utf8
len_utf8(c) ==
    IF c < 128 THEN 1
    ELSE IF c < 2048 THEN 2
    ELSE IF c < 65536 THEN 3
    ELSE 4

\* The UTF-8 encoding of one character.
encode_utf8(c) ==
    IF c < 128 THEN <<c>>
    ELSE IF c < 2048 THEN <<192 + (c \div 64), 128 + (c % 64)>>
    ELSE IF c < 65536 THEN
        <<224 + (c \div 4096), 128 + ((c \div 64) % 64), 128 + (c % 64)>>
    ELSE <<240 + (c \div 262144), 128 + ((c \div 4096) % 64),
           128 + ((c \div 64) % 64), 128 + (c % 64)>>

RECURSIVE as_bytes(_)
\* str::as_bytes: the bytes of a string.
as_bytes(s) == IF s = << >> THEN << >> ELSE encode_utf8(Head(s)) \o as_bytes(Tail(s))

RECURSIVE str_len(_)
\* str::len: the byte length of a string.
str_len(s) == IF s = << >> THEN 0 ELSE len_utf8(Head(s)) + str_len(Tail(s))

---------------------------------------------------------------------------
(* lib.rs: classifiers.                                                    *)

\* Mutant: the next-line character U+0085 and the ideographic space U+3000
\* are whitespace too.
is_whitespace_unicode(c) ==
    c \in {CH_TAB, CH_LF, CH_VT, CH_FF, CH_CR, CH_SPACE, 133, 12288}

is_whitespace(c) == c \in {CH_TAB, CH_LF, CH_VT, CH_FF, CH_CR, CH_SPACE}

\* Mutant: DEL is no control character.
is_ascii_control_c0(c) == c <= 31

\* char::is_ascii_control
is_ascii_control(c) == c <= 31 \/ c = 127

\* char::is_ascii_digit
is_ascii_digit(c) == CH_0 <= c /\ c <= CH_9

is_ident_continue(c) ==
    /\ ~is_ascii_control(c)
    /\ ~is_whitespace(c)
    /\ c \notin {CH_PLUS, CH_MINUS, CH_STAR, CH_SLASH, CH_PERCENT, CH_CARET,
                 CH_HASH, CH_AMP, CH_TILDE, CH_PIPE, CH_LT, CH_GT, CH_EQ,
                 CH_LPAREN, CH_RPAREN, CH_LBRACE, CH_RBRACE, CH_LBRACKET,
                 CH_RBRACKET, CH_SEMI, CH_COLON, CH_COMMA, CH_DOT,
                 CH_BACKSLASH, CH_SQUOTE, CH_DQUOTE}

is_ident_start(c) == ~is_ascii_digit(c) /\ is_ident_continue(c)

is_hex_digit(c) ==
    \/ CH_0 <= c /\ c <= CH_9
    \/ CH_a <= c /\ c <= CH_f
    \/ CH_UPPER_A <= c /\ c <= CH_UPPER_F

\* Mutant: an identifier goes on with identifier-start characters only.
call_ident_start(predicate, c) ==
    CASE predicate = "is_whitespace" -> is_whitespace(c)
      [] predicate = "is_ident_continue" -> is_ident_start(c)
      [] predicate = "not_line_feed" -> c # CH_LF
      [] predicate = "is_eq" -> c = CH_EQ

\* The predicates handed to consume_while and count_and_consume_while, by
\* name: is_whitespace, is_ident_continue, |c| c != '\n' and |c| c == '='.
call(predicate, c) ==
    CASE predicate = "is_whitespace" -> is_whitespace(c)
      [] predicate = "is_ident_continue" -> is_ident_continue(c)
      [] predicate = "not_line_feed" -> c # CH_LF
      [] predicate = "is_eq" -> c = CH_EQ

---------------------------------------------------------------------------
(* cursor.rs: the Cursor.  `chars` is the unread rest of the input.  Two   *)
(* fields are ghosts of the model: `panic` names the first panic (a failed *)
(* debug assertion, unwrap or unreachable!) and `ticks` counts the loop    *)
(* iterations executed, which no loop continues beyond MaxInputLen.        *)

Cursor_new(s) ==
    [initial_len |-> str_len(s), chars |-> s, prev |-> EOF_CHAR,
     panic |-> "", ticks |-> 0]

\* The last eaten symbol (debug builds).
prev(cur) == cur.prev

peek(cur) == IF cur.chars = << >> THEN EOF_CHAR ELSE Head(cur.chars)

\* Mutant: the end of the input is taken from the sentinel peek returns.
is_eof_sentinel(cur) == peek(cur) = EOF_CHAR

is_eof(cur) == cur.chars = << >>

\* `n as u32`: the low 32 bits of n, as two 16-bit halves (2^32 itself is no
\* number of the model checker).
as_u32(n) == (n % 65536) + 65536 * ((n \div 65536) % 65536)

len_consumed(cur) == as_u32(cur.initial_len - str_len(cur.chars))

\* Mutant: the consumed length is not reset between tokens.
reset_len_consumed_forgotten(cur) == cur

reset_len_consumed(cur) == [cur EXCEPT !.initial_len = str_len(cur.chars)]

\* Moves to the next character: the cursor after the call and what it returns.
consume(cur) ==
    IF cur.chars = << >>
    THEN [cur |-> cur, ret |-> None]
    ELSE [cur |-> [cur EXCEPT !.chars = Tail(@), !.prev = Head(cur.chars)],
          ret |-> Some(Head(cur.chars))]

\* A panic: the first one is kept.
Panic(cur, what) == IF cur.panic = "" THEN [cur EXCEPT !.panic = what] ELSE cur

debug_assert(cur, cond, what) == IF cond THEN cur ELSE Panic(cur, what)

\* One more iteration of a loop.
Tick(cur) == [cur EXCEPT !.ticks = @ + 1]

OutOfTicks(cur) == cur.ticks > MaxInputLen

RECURSIVE consume_while_unguarded(_, _)
\* Mutant: the loop does not test is_eof.
consume_while_unguarded(cur, predicate) ==
    IF OutOfTicks(cur) THEN cur
    ELSE IF call(predicate, peek(cur))
    THEN consume_while_unguarded(Tick(consume(cur).cur), predicate)
    ELSE cur

RECURSIVE consume_while(_, _)
consume_while(cur, predicate) ==
    IF OutOfTicks(cur) THEN cur
    ELSE IF ~is_eof(cur) /\ call(predicate, peek(cur))
    THEN consume_while(Tick(consume(cur).cur), predicate)
    ELSE cur

RECURSIVE count_and_consume_while_bytes(_, _, _)
\* Mutant: the count is the number of bytes consumed.
count_and_consume_while_bytes(cur, predicate, count) ==
    IF OutOfTicks(cur) THEN [cur |-> cur, ret |-> count]
    ELSE IF ~is_eof(cur) /\ call(predicate, peek(cur))
    THEN count_and_consume_while_bytes(Tick(consume(cur).cur), predicate,
                                       count + len_utf8(peek(cur)))
    ELSE [cur |-> cur, ret |-> count]

RECURSIVE count_and_consume_while(_, _, _)
\* The cursor after the call and the count it returns, starting from `count`.
count_and_consume_while(cur, predicate, count) ==
    IF OutOfTicks(cur) THEN [cur |-> cur, ret |-> count]
    ELSE IF ~is_eof(cur) /\ call(predicate, peek(cur))
    THEN count_and_consume_while(Tick(consume(cur).cur), predicate, count + 1)
    ELSE [cur |-> cur, ret |-> count]

---------------------------------------------------------------------------
(* lib.rs: tokens.                                                         *)

Token(kind, len) == [kind |-> kind, len |-> len]

ShortComment == [tag |-> "ShortComment"]
LongComment(terminated) == [tag |-> "LongComment", terminated |-> terminated]
Whitespace == [tag |-> "Whitespace"]
Ident == [tag |-> "Ident"]
Literal(kind) == [tag |-> "Literal", kind |-> kind]
Punct(name) == [tag |-> name]
Unknown == [tag |-> "Unknown"]

Number(base, empty_number, empty_exponent) ==
    [tag |-> "Number", base |-> base, empty_number |-> empty_number,
     empty_exponent |-> empty_exponent]
ShortString(quote, terminated) ==
    [tag |-> "ShortString", quote |-> quote, terminated |-> terminated]
LongString(level, terminated) ==
    [tag |-> "LongString", level |-> level, terminated |-> terminated]

---------------------------------------------------------------------------
(* lib.rs: the sub-lexers.  Each returns the cursor after the call (cur)   *)
(* and what the routine returns (ret).                                     *)

RECURSIVE comment_loop(_, _)
\* The `while let Some(c) = self.consume()` loop of a long comment.
comment_loop(cur, open_level) ==
    IF OutOfTicks(cur) THEN [cur |-> cur, ret |-> LongComment(FALSE)]
    ELSE LET r == consume(cur) IN
         IF r.ret = None THEN [cur |-> r.cur, ret |-> LongComment(FALSE)]
         ELSE IF r.ret = Some(CH_RBRACKET)
         THEN LET k == count_and_consume_while(r.cur, "is_eq", 0) IN
              IF open_level = k.ret /\ peek(k.cur) = CH_RBRACKET
              THEN [cur |-> consume(k.cur).cur, ret |-> LongComment(TRUE)]
              ELSE comment_loop(Tick(k.cur), open_level)
         ELSE comment_loop(Tick(r.cur), open_level)

\* Mutant: `[` and a run of `=` open a long comment, a second `[` or not.
comment_eager(cur) ==
    LET c1 == consume(cur).cur
    IN  IF peek(c1) = CH_LBRACKET
        THEN LET k == count_and_consume_while(consume(c1).cur, "is_eq", 0)
             IN  comment_loop(k.cur, k.ret)
        ELSE [cur |-> consume_while(c1, "not_line_feed"), ret |-> ShortComment]

\* Mutant: a short comment takes the line feed that ends its line.
comment_through_line(cur) ==
    LET c1 == consume(cur).cur
        line(c) == consume(consume_while(c, "not_line_feed")).cur
    IN  IF peek(c1) = CH_LBRACKET
        THEN LET k == count_and_consume_while(consume(c1).cur, "is_eq", 0)
             IN  IF peek(k.cur) = CH_LBRACKET
                 THEN comment_loop(k.cur, k.ret)
                 ELSE [cur |-> line(k.cur), ret |-> ShortComment]
        ELSE [cur |-> line(c1), ret |-> ShortComment]

\* Mutant: the comment is closed by `]]` whatever the level of its opener.
comment_level0(cur) ==
    LET c1 == consume(cur).cur
    IN  IF peek(c1) = CH_LBRACKET
        THEN LET k == count_and_consume_while(consume(c1).cur, "is_eq", 0)
             IN  IF peek(k.cur) = CH_LBRACKET
                 THEN comment_loop(k.cur, 0)
                 ELSE [cur |-> consume_while(k.cur, "not_line_feed"),
                       ret |-> ShortComment]
        ELSE [cur |-> consume_while(c1, "not_line_feed"), ret |-> ShortComment]

comment(cur) ==
    LET c0 == debug_assert(cur, prev(cur) = CH_MINUS /\ peek(cur) = CH_MINUS,
                           "comment")
        c1 == consume(c0).cur
    IN  IF peek(c1) = CH_LBRACKET
        THEN LET c2 == consume(c1).cur
                 k == count_and_consume_while(c2, "is_eq", 0)
                 open_level == k.ret
             IN  IF peek(k.cur) = CH_LBRACKET
                 THEN comment_loop(k.cur, open_level)
                 ELSE [cur |-> consume_while(k.cur, "not_line_feed"),
                       ret |-> ShortComment]
        ELSE [cur |-> consume_while(c1, "not_line_feed"), ret |-> ShortComment]

RECURSIVE decimal_digits_loop(_, _)
decimal_digits_loop(cur, has_digits) ==
    IF OutOfTicks(cur) THEN [cur |-> cur, ret |-> has_digits]
    ELSE IF is_ascii_digit(peek(cur))
    THEN decimal_digits_loop(Tick(consume(cur).cur), TRUE)
    ELSE [cur |-> cur, ret |-> has_digits]

consume_decimal_digits(cur) == decimal_digits_loop(cur, FALSE)

RECURSIVE hexadecimal_digits_loop(_, _)
hexadecimal_digits_loop(cur, has_digits) ==
    IF OutOfTicks(cur) THEN [cur |-> cur, ret |-> has_digits]
    ELSE IF is_hex_digit(peek(cur))
    THEN hexadecimal_digits_loop(Tick(consume(cur).cur), TRUE)
    ELSE [cur |-> cur, ret |-> has_digits]

\* Mutant: the digits are consumed and forgotten.
consume_hexadecimal_digits_false(cur) ==
    [cur |-> hexadecimal_digits_loop(cur, FALSE).cur, ret |-> FALSE]

\* Mutant: has_digits starts out true.
consume_hexadecimal_digits_true(cur) == hexadecimal_digits_loop(cur, TRUE)

consume_hexadecimal_digits(cur) == hexadecimal_digits_loop(cur, FALSE)

\* Mutant: the exponent takes no sign.
consume_number_exponent_unsigned(cur) == consume_decimal_digits(cur)

\* ret: TRUE if at least one digit was met.
consume_number_exponent(cur) ==
    LET c0 == debug_assert(cur, prev(cur) \in {CH_e, CH_UPPER_E, CH_p, CH_UPPER_P},
                           "consume_number_exponent")
        c1 == IF peek(c0) = CH_MINUS \/ peek(c0) = CH_PLUS
              THEN consume(c0).cur ELSE c0
    IN  consume_decimal_digits(c1)

\* lines 348-387: the base prefix and the integer part.  `zero` is the early
\* return of a lone `0`.
number_integer_part(cur, first_digit) ==
    IF first_digit = CH_0
    THEN IF peek(cur) \in {CH_x, CH_UPPER_X}
         THEN LET r == consume_hexadecimal_digits(consume(cur).cur) IN
              [cur |-> r.cur, base |-> "Hexadecimal", has_digits |-> r.ret,
               zero |-> FALSE]
         ELSE IF is_ascii_digit(peek(cur)) \/ peek(cur) \in {CH_DOT, CH_e, CH_UPPER_E}
         THEN [cur |-> consume_decimal_digits(cur).cur, base |-> "Decimal",
               has_digits |-> TRUE, zero |-> FALSE]
         ELSE [cur |-> cur, base |-> "Decimal", has_digits |-> TRUE, zero |-> TRUE]
    ELSE [cur |-> consume_decimal_digits(cur).cur, base |-> "Decimal",
          has_digits |-> TRUE, zero |-> FALSE]

\* Mutant: `e`, `E`, `p` and `P` start an exponent in either base.
number_fraction_exponent_any_marker(cur, base) ==
    LET exponent(c) ==
            LET r == consume_number_exponent(consume(c).cur) IN
            [cur |-> r.cur, ret |-> Number(base, FALSE, ~r.ret)]
        markers == {CH_e, CH_UPPER_E, CH_p, CH_UPPER_P}
        c1 == IF peek(cur) # CH_DOT THEN cur
              ELSE IF base = "Decimal" THEN consume_decimal_digits(consume(cur).cur).cur
              ELSE consume_hexadecimal_digits(consume(cur).cur).cur
    IN  IF peek(c1) \in markers THEN exponent(c1)
        ELSE [cur |-> c1, ret |-> Number(base, FALSE, FALSE)]

\* lines 389-447: the fractional part and the exponent.
number_fraction_exponent(cur, base) ==
    LET empty_number == FALSE
        exponent(c) ==
            LET r == consume_number_exponent(consume(c).cur) IN
            [cur |-> r.cur, ret |-> Number(base, empty_number, ~r.ret)]
    IN  IF peek(cur) = CH_DOT
        THEN LET c1 == consume(cur).cur
                 c2 == IF base = "Decimal"
                       THEN consume_decimal_digits(c1).cur
                       ELSE consume_hexadecimal_digits(c1).cur
                 marker == IF base = "Decimal"
                           THEN {CH_e, CH_UPPER_E} ELSE {CH_p, CH_UPPER_P}
             IN  IF peek(c2) \in marker
                 THEN exponent(c2)
                 ELSE [cur |-> c2, ret |-> Number(base, empty_number, FALSE)]
        ELSE IF peek(cur) \in {CH_e, CH_UPPER_E} /\ base = "Decimal"
        THEN exponent(cur)
        ELSE IF peek(cur) \in {CH_p, CH_UPPER_P} /\ base = "Hexadecimal"
        THEN exponent(cur)
        ELSE [cur |-> cur, ret |-> Number(base, empty_number, FALSE)]

\* Mutant: a lone `0` is a number like any other digit.
number_plain_zero(cur, first_digit) ==
    LET h == number_integer_part(cur, first_digit)
        t == number_fraction_exponent(h.cur, h.base)
    IN  IF ~h.has_digits
        THEN [cur |-> h.cur, ret |-> Literal(Number(h.base, TRUE, FALSE))]
        ELSE [cur |-> t.cur, ret |-> Literal(t.ret)]

number(cur, first_digit) ==
    LET c0 == debug_assert(cur, prev(cur) = first_digit /\ CH_0 <= prev(cur)
                                /\ prev(cur) <= CH_9, "number")
        h == number_integer_part(c0, first_digit)
    IN  IF h.zero
        THEN [cur |-> h.cur, ret |-> Literal(Number(h.base, FALSE, TRUE))]
        ELSE IF ~h.has_digits
        THEN [cur |-> h.cur, ret |-> Literal(Number(h.base, TRUE, FALSE))]
        ELSE LET t == number_fraction_exponent(h.cur, h.base) IN
             [cur |-> t.cur, ret |-> Literal(t.ret)]

\* Mutant: a backslash is consumed alone.
short_string_escape_alone(cur) == consume(cur).cur

\* Mutant: `z` is escaped like any other character.
short_string_escape_plain(cur) == consume(consume(cur).cur).cur

\* The `'\\'` arm of short_string (lines 458-465): the backslash, the escaped
\* character and, behind `\z`, the whitespace that follows.
short_string_escape(cur) ==
    LET r == consume(consume(cur).cur) IN
    IF r.ret = Some(CH_z) THEN consume_while(r.cur, "is_whitespace") ELSE r.cur

RECURSIVE short_string_loop(_, _)
\* ret: terminated.
short_string_loop(cur, quote) ==
    IF OutOfTicks(cur) THEN [cur |-> cur, ret |-> FALSE]
    ELSE IF peek(cur) = quote
    THEN [cur |-> consume(cur).cur, ret |-> TRUE]
    ELSE IF peek(cur) = CH_BACKSLASH
    THEN short_string_loop(Tick(short_string_escape(cur)), quote)
    ELSE IF peek(cur) \in {CH_LF, EOF_CHAR}
    THEN [cur |-> cur, ret |-> FALSE]
    ELSE short_string_loop(Tick(consume(cur).cur), quote)

\* Mutant: the string is closed by the other quote character.
short_string_other_quote(cur, quote) ==
    LET r == short_string_loop(cur, IF quote = CH_SQUOTE THEN CH_DQUOTE ELSE CH_SQUOTE)
    IN  [cur |-> r.cur, ret |-> Literal(ShortString(quote, r.ret))]

short_string(cur, quote) ==
    LET c0 == debug_assert(cur, prev(cur) = quote, "short_string")
        r == short_string_loop(c0, quote)
    IN  [cur |-> r.cur, ret |-> Literal(ShortString(quote, r.ret))]

RECURSIVE long_string_content_loop(_, _)
long_string_content_loop(cur, level) ==
    IF OutOfTicks(cur) THEN [cur |-> cur, ret |-> FALSE]
    ELSE LET r == consume(cur) IN
         IF r.ret = None THEN [cur |-> r.cur, ret |-> FALSE]
         ELSE IF r.ret = Some(CH_RBRACKET)
         THEN LET k == count_and_consume_while(r.cur, "is_eq", 0) IN
              IF k.ret = level /\ peek(k.cur) = CH_RBRACKET
              THEN [cur |-> consume(k.cur).cur, ret |-> TRUE]
              ELSE long_string_content_loop(Tick(k.cur), level)
         ELSE long_string_content_loop(Tick(r.cur), level)

\* Mutant: the closer of level 0 closes every level.
consume_long_string_content_level0(cur, level) == long_string_content_loop(cur, 0)

\* ret: terminated.
consume_long_string_content(cur, level) ==
    long_string_content_loop(
        debug_assert(cur, prev(cur) = CH_LBRACKET, "consume_long_string_content"),
        level)

\* Mutant: an opener that ends before its second `[` scans for a closer all
\* the same.
long_string_scan(cur) ==
    IF peek(cur) = CH_LBRACKET
    THEN LET r == consume_long_string_content(consume(cur).cur, 0) IN
         [cur |-> r.cur, ret |-> Literal(LongString(0, r.ret))]
    ELSE LET k == count_and_consume_while(cur, "is_eq", 0)
             r == long_string_content_loop(k.cur, k.ret)
         IN  [cur |-> r.cur, ret |-> Literal(LongString(k.ret, r.ret))]

long_string(cur) ==
    LET c0 == debug_assert(cur, prev(cur) = CH_LBRACKET, "long_string") IN
    IF peek(c0) = CH_LBRACKET
    THEN LET r == consume_long_string_content(consume(c0).cur, 0) IN
         [cur |-> r.cur, ret |-> Literal(LongString(0, r.ret))]
    ELSE IF peek(c0) = CH_EQ
    THEN LET k == count_and_consume_while(c0, "is_eq", 0)
             level == k.ret
         IN  IF peek(k.cur) = CH_LBRACKET
             THEN LET r == consume_long_string_content(consume(k.cur).cur, level) IN
                  [cur |-> r.cur, ret |-> Literal(LongString(level, r.ret))]
             ELSE [cur |-> k.cur, ret |-> Literal(LongString(level, FALSE))]
    ELSE [cur |-> Panic(c0, "unreachable"), ret |-> Unknown]

whitespace(cur) ==
    LET c0 == debug_assert(cur, is_whitespace(prev(cur)), "whitespace") IN
    [cur |-> consume_while(c0, "is_whitespace"), ret |-> Whitespace]

---------------------------------------------------------------------------
(* lib.rs: the dispatcher.                                                 *)

\* The one-symbol arms of advance_token.
OneSymbol ==
    [c \in {CH_SEMI, CH_COMMA, CH_DOT, CH_LPAREN, CH_RPAREN, CH_LBRACE,
            CH_RBRACE, CH_RBRACKET, CH_HASH, CH_TILDE, CH_COLON, CH_EQ, CH_LT,
            CH_GT, CH_PLUS, CH_STAR, CH_SLASH, CH_CARET, CH_PERCENT} |->
        CASE c = CH_SEMI -> "Semi"
          [] c = CH_COMMA -> "Comma"
          [] c = CH_DOT -> "Dot"
          [] c = CH_LPAREN -> "OpenParen"
          [] c = CH_RPAREN -> "CloseParen"
          [] c = CH_LBRACE -> "OpenBrace"
          [] c = CH_RBRACE -> "CloseBrace"
          [] c = CH_RBRACKET -> "CloseBracket"
          [] c = CH_HASH -> "Hash"
          [] c = CH_TILDE -> "Tilde"
          [] c = CH_COLON -> "Colon"
          [] c = CH_EQ -> "Eq"
          [] c = CH_LT -> "Lt"
          [] c = CH_GT -> "Gt"
          [] c = CH_PLUS -> "Plus"
          [] c = CH_STAR -> "Star"
          [] c = CH_SLASH -> "Slash"
          [] c = CH_CARET -> "Caret"
          [] c = CH_PERCENT -> "Percent"]

\* Mutant: the character looked at behind `-` and `[` is consumed.
token_kind_lookahead(cur, first_char) ==
    IF is_whitespace(first_char) THEN whitespace(cur)
    ELSE IF first_char = CH_MINUS
    THEN IF peek(cur) = CH_MINUS THEN comment(cur)
         ELSE [cur |-> consume(cur).cur, ret |-> Punct("Minus")]
    ELSE IF is_ascii_digit(first_char) THEN number(cur, first_char)
    ELSE IF first_char \in {CH_SQUOTE, CH_DQUOTE} THEN short_string(cur, first_char)
    ELSE IF first_char = CH_LBRACKET
    THEN IF peek(cur) \in {CH_LBRACKET, CH_EQ} THEN long_string(cur)
         ELSE [cur |-> consume(cur).cur, ret |-> Punct("OpenBracket")]
    ELSE IF first_char \in DOMAIN OneSymbol
    THEN [cur |-> cur, ret |-> Punct(OneSymbol[first_char])]
    ELSE IF is_ident_start(first_char)
    THEN [cur |-> consume_while(cur, "is_ident_continue"), ret |-> Ident]
    ELSE [cur |-> cur, ret |-> Unknown]

\* The `match first_char` of advance_token, after the first character has
\* been consumed.
token_kind(cur, first_char) ==
    IF is_whitespace(first_char) THEN whitespace(cur)
    ELSE IF first_char = CH_MINUS
    THEN IF peek(cur) = CH_MINUS THEN comment(cur)
         ELSE [cur |-> cur, ret |-> Punct("Minus")]
    ELSE IF is_ascii_digit(first_char) THEN number(cur, first_char)
    ELSE IF first_char \in {CH_SQUOTE, CH_DQUOTE} THEN short_string(cur, first_char)
    ELSE IF first_char = CH_LBRACKET
    THEN IF peek(cur) \in {CH_LBRACKET, CH_EQ} THEN long_string(cur)
         ELSE [cur |-> cur, ret |-> Punct("OpenBracket")]
    ELSE IF first_char \in DOMAIN OneSymbol
    THEN [cur |-> cur, ret |-> Punct(OneSymbol[first_char])]
    ELSE IF is_ident_start(first_char)
    THEN [cur |-> consume_while(cur, "is_ident_continue"), ret |-> Ident]
    ELSE [cur |-> cur, ret |-> Unknown]

\* Mutant: the first character is peeked, not consumed.
advance_token_peek(cur) ==
    LET k == token_kind(cur, peek(cur)) IN
    IF k.cur.panic # "" THEN [cur |-> k.cur, ret |-> None]
    ELSE [cur |-> k.cur, ret |-> Some(Token(k.ret, len_consumed(k.cur)))]

\* Parses a token from the input string.  ret is None when the call panics.
advance_token(cur) ==
    LET r == consume(cur) IN
    IF r.ret = None THEN [cur |-> Panic(r.cur, "unwrap"), ret |-> None]
    ELSE LET k == token_kind(r.cur, r.ret.val) IN
         IF k.cur.panic # "" THEN [cur |-> k.cur, ret |-> None]
         ELSE [cur |-> k.cur, ret |-> Some(Token(k.ret, len_consumed(k.cur)))]

\* Mutant: the closure does not test is_eof.
tokenize_next_unchecked(cur) == advance_token(reset_len_consumed(cur))

\* The closure tokenize hands to std::iter::from_fn: one call of next().
tokenize_next(cur) ==
    IF is_eof(cur) THEN [cur |-> cur, ret |-> None]
    ELSE advance_token(reset_len_consumed(cur))

---------------------------------------------------------------------------
(* lib.rs: strip_hashbang.                                                 *)

RECURSIVE strip_prefix_trimmed(_, _)
\* Mutant: whitespace before the prefix is skipped.
strip_prefix_trimmed(s, prefix) ==
    IF s # << >> /\ is_whitespace(Head(s)) THEN strip_prefix_trimmed(Tail(s), prefix)
    ELSE IF Len(s) >= Len(prefix) /\ SubSeq(s, 1, Len(prefix)) = prefix
    THEN Some(SubSeq(s, Len(prefix) + 1, Len(s)))
    ELSE None

\* str::strip_prefix: the rest of s behind `prefix`, or None.
strip_prefix(s, prefix) ==
    IF Len(s) >= Len(prefix) /\ SubSeq(s, 1, Len(prefix)) = prefix
    THEN Some(SubSeq(s, Len(prefix) + 1, Len(s)))
    ELSE None

\* The index of the first c in s, or 0.
find(s, c) ==
    IF \E i \in 1..Len(s) : s[i] = c
    THEN CHOOSE i \in 1..Len(s) : s[i] = c /\ \A j \in 1..(i - 1) : s[j] # c
    ELSE 0

\* Mutant: the line is split at the line feed alone.
first_line_keep_cr(s) ==
    IF s = << >> THEN None
    ELSE LET nl == find(s, CH_LF) IN
         IF nl = 0 THEN Some(s) ELSE Some(SubSeq(s, 1, nl - 1))

\* str::lines().next(): the first line of s without its terminator (a line
\* feed, with the carriage return before it if there is one), or None for
\* the empty string.
first_line(s) ==
    IF s = << >> THEN None
    ELSE LET nl == find(s, CH_LF) IN
         IF nl = 0 THEN Some(s)
         ELSE IF nl > 1 /\ s[nl - 1] = CH_CR THEN Some(SubSeq(s, 1, nl - 2))
         ELSE Some(SubSeq(s, 1, nl - 1))

strip_hashbang(s) ==
    LET input_tail == strip_prefix(s, <<CH_HASH, CH_BANG>>) IN
    IF input_tail # None
    THEN LET line == first_line(input_tail.val) IN
         Some(2 + str_len(IF line = None THEN << >> ELSE line.val))
    ELSE None

---------------------------------------------------------------------------
(* The state machine: runs of tokenize stepped by their callers, and the   *)
(* caller's one call of strip_hashbang.                                    *)

Runs == {1, 2}

NotCalled == [called |-> FALSE, ret |-> None]

InitRuns(inputs, runs) ==
    /\ input \in inputs
    /\ cursor = [r \in runs |-> Cursor_new(input)]
    /\ tokens = [r \in runs |-> << >>]
    /\ last = [r \in runs |-> "NotCalled"]
    /\ hashbang = NotCalled

\* Mutant: the runs share one cursor.
StepShared(r) ==
    /\ cursor[r].panic = ""
    /\ LET t == tokenize_next(cursor[r]) IN
       /\ cursor' = [q \in DOMAIN cursor |-> t.cur]
       /\ tokens' = [tokens EXCEPT ![r] = IF t.ret = None THEN @ ELSE Append(@, t.ret.val)]
       /\ last' = [last EXCEPT ![r] =
                      IF t.cur.panic # "" THEN "Panic"
                      ELSE IF t.ret = None THEN "None" ELSE "Some"]
    /\ UNCHANGED <<input, hashbang>>

\* Run r's caller calls next() on its iterator.
Step(r) ==
    /\ cursor[r].panic = ""
    /\ LET t == tokenize_next(cursor[r]) IN
       /\ cursor' = [cursor EXCEPT ![r] = t.cur]
       /\ tokens' = [tokens EXCEPT ![r] = IF t.ret = None THEN @ ELSE Append(@, t.ret.val)]
       /\ last' = [last EXCEPT ![r] =
                      IF t.cur.panic # "" THEN "Panic"
                      ELSE IF t.ret = None THEN "None" ELSE "Some"]
    /\ UNCHANGED <<input, hashbang>>

\* The caller that owns the buffer calls strip_hashbang.
StripHashbang ==
    /\ ~hashbang.called
    /\ hashbang' = [called |-> TRUE, ret |-> strip_hashbang(input)]
    /\ UNCHANGED <<input, cursor, tokens, last>>

\* One run of tokenize.
Init == InitRuns(Inputs, {1})
Next == Step(1)
Spec == Init /\ [][Next]_vars

\* A call of next() changes the state unless the previous call has already
\* reported the end of the sequence (or has panicked): this is ENABLED <<Next>>_vars.
CanStep == last[1] \notin {"None", "Panic"}

\* One run of tokenize, whose caller keeps calling next(): weak fairness of
\* Next, written out with CanStep for ENABLED <<Next>>_vars.
FairSpec == Spec /\ ([]<>(~CanStep) \/ []<><<Next>>_vars)

\* Two runs of tokenize on the same input, interleaved in any order.
InitTwo == InitRuns(TwoInputs, Runs)
NextTwo == \E r \in Runs : Step(r)
SpecTwo == InitTwo /\ [][NextTwo]_vars

\* Run 1 of tokenize on a text that starts with `[`, run 2 on `--` and the
\* same text.
InitComment ==
    /\ input \in CmtInputs
    /\ cursor = [r \in Runs |-> IF r = 1 THEN Cursor_new(input)
                                ELSE Cursor_new(<<CH_MINUS, CH_MINUS>> \o input)]
    /\ tokens = [r \in Runs |-> << >>]
    /\ last = [r \in Runs |-> "NotCalled"]
    /\ hashbang = NotCalled
NextComment == \E r \in Runs : Step(r)
SpecComment == InitComment /\ [][NextComment]_vars

\* The owner of one Cursor calls its operations in any order.  `last` is
\* the latest call: the operation, its argument, what it returned, and the
\* Cursor as it was before the call.
Predicates == {"is_whitespace", "is_ident_continue", "not_line_feed", "is_eq"}

Unit == [unit |-> TRUE]

Called(op, arg, before, ret) == [op |-> op, arg |-> arg, before |-> before, ret |-> ret]

CursorCall(op, arg, after, ret) ==
    /\ cursor' = [cursor EXCEPT ![1] = after]
    /\ last' = [last EXCEPT ![1] = Called(op, arg, cursor[1], ret)]
    /\ UNCHANGED <<input, tokens, hashbang>>

CallPeek == CursorCall("peek", "", cursor[1], peek(cursor[1]))

CallIsEof == CursorCall("is_eof", "", cursor[1], is_eof(cursor[1]))

CallLenConsumed == CursorCall("len_consumed", "", cursor[1], len_consumed(cursor[1]))

CallResetLenConsumed ==
    CursorCall("reset_len_consumed", "", reset_len_consumed(cursor[1]), Unit)

CallConsume ==
    LET r == consume(cursor[1]) IN CursorCall("consume", "", r.cur, r.ret)

CallConsumeWhile ==
    \E p \in Predicates :
        CursorCall("consume_while", p, consume_while(cursor[1], p), Unit)

CallCountAndConsumeWhile ==
    \E p \in Predicates :
        LET r == count_and_consume_while(cursor[1], p, 0) IN
        CursorCall("count_and_consume_while", p, r.cur, r.ret)

InitCursor ==
    /\ input \in CursorInputs
    /\ cursor = [r \in {1} |-> Cursor_new(input)]
    /\ tokens = [r \in {1} |-> << >>]
    /\ last = [r \in {1} |-> Called("new", "", Cursor_new(input), Unit)]
    /\ hashbang = NotCalled
NextCursor ==
    \/ CallPeek
    \/ CallIsEof
    \/ CallLenConsumed
    \/ CallResetLenConsumed
    \/ CallConsume
    \/ CallConsumeWhile
    \/ CallCountAndConsumeWhile
SpecCursor == InitCursor /\ [][NextCursor]_vars

\* strip_hashbang on its own.
InitHashbang == InitRuns(Inputs, {1})
NextHashbang == StripHashbang
SpecHashbang == InitHashbang /\ [][NextHashbang]_vars

---------------------------------------------------------------------------
(* Vocabulary of the properties.  Run 1 is the run of Spec.                *)

Cur == cursor[1]
Toks == tokens[1]
Ended == last[1] = "None"

\* The bytes of the input, and the bytes run 1 has still to read.
InputBytes == as_bytes(input)
UnreadBytes == as_bytes(Cur.chars)

RECURSIVE SumLen(_)
\* The sum of the lengths of the tokens ts.
SumLen(ts) == IF ts = << >> THEN 0 ELSE Head(ts).len + SumLen(Tail(ts))

\* The byte offset at which token i of run 1 starts, and the one where it ends.
TokStart(i) == SumLen(SubSeq(Toks, 1, i - 1))
TokEnd(i) == TokStart(i) + Toks[i].len

\* The slice of the input's bytes that token i's length implies.
TokBytes(i) == SubSeq(InputBytes, TokStart(i) + 1, TokEnd(i))

RECURSIVE ConcatSlices(_)
\* The slices of tokens 1..n, concatenated.
ConcatSlices(n) == IF n = 0 THEN << >> ELSE ConcatSlices(n - 1) \o TokBytes(n)

\* The number of characters of the input that lie before byte offset b, or
\* -1 when b is not the offset of a character boundary.
CharsBefore(b) ==
    IF \E k \in 0..Len(input) : Len(as_bytes(SubSeq(input, 1, k))) = b
    THEN CHOOSE k \in 0..Len(input) : Len(as_bytes(SubSeq(input, 1, k))) = b
    ELSE -1

\* The characters of token i, and the characters of the input behind it.
TokText(i) == SubSeq(input, CharsBefore(TokStart(i)) + 1, CharsBefore(TokEnd(i)))
TokRest(i) == SubSeq(input, CharsBefore(TokEnd(i)) + 1, Len(input))

IsNumber(t) == t.kind.tag = "Literal" /\ t.kind.kind.tag = "Number"

---------------------------------------------------------------------------
(* Properties of the token sequence as a whole.                            *)

\* C1: the tokens are contiguous and start at byte offset 0: the slices of
\* the input that consecutive token lengths imply, concatenated, are exactly
\* the bytes read so far, with the unread bytes behind them they are the
\* input, and when the sequence has ended the lengths sum to the input's
\* byte length.
C1_TokensCoverInput ==
    /\ SumLen(Toks) + Len(UnreadBytes) = Len(InputBytes)
    /\ ConcatSlices(Len(Toks)) \o UnreadBytes = InputBytes
    /\ Ended => /\ SumLen(Toks) = Len(InputBytes)
                /\ ConcatSlices(Len(Toks)) = InputBytes

\* A run has ended after several tokens, one of them of several bytes.
C1_Witness ==
    /\ Ended
    /\ Len(Toks) >= 3
    /\ \E i \in 1..Len(Toks) : Toks[i].len >= 3

\* C2: every token yielded has a strictly positive length.
C2_PositiveLength == \A i \in 1..Len(Toks) : Toks[i].len > 0

\* Tokens of every branch of the dispatcher that consumes no second character
\* have been yielded: a one-symbol token, Minus, OpenBracket and Unknown.
C2_Witness ==
    /\ Len(Toks) >= 2
    /\ \E i \in 1..Len(Toks) : Toks[i].kind.tag \in {"Unknown", "Minus", "OpenBracket", "Dot"}
    /\ \A i \in 1..Len(Toks) : Toks[i].len = 1

\* C3: no step of tokenize panics: the unwrap of advance_token sees a
\* character, the unreachable!() of long_string is not reached and every
\* debug assertion of the sub-lexers holds.
C3_NoPanic == Cur.panic = "" /\ last[1] # "Panic"

\* A level-1 long string has been lexed to its closer and the run has ended:
\* long_string, count_and_consume_while and consume_long_string_content were
\* entered, and the iterator was called once more at the end of the input.
C3_Witness ==
    /\ Ended
    /\ Len(Toks) = 1
    /\ Toks[1].kind = Literal(LongString(1, TRUE))
    /\ Cur.panic = ""

\* The tokens ts hold a token of kind k.
HasKind(ts, k) == \E i \in 1..Len(ts) : ts[i].kind = k

\* C4: tokenization terminates.  No loop of the lexer runs more iterations
\* than characters have been consumed (each iteration consumes one, also
\* where the predicate accepts the end-of-input sentinel), and a caller that
\* keeps calling next() is told the end of the sequence.
C4_Terminates ==
    /\ [](Cur.ticks <= Len(input) - Len(Cur.chars))
    /\ <>Ended

\* A short comment ran to the end of an input that has no line feed, where
\* the character at the end of input satisfies the predicate c != '\n', and
\* the sequence has ended.
C4_Witness ==
    /\ Ended
    /\ Len(Toks) = 1
    /\ Toks[1].kind = ShortComment
    /\ Toks[1].len >= 4
    /\ Cur.ticks >= 2

\* C5: the sequence ends exactly when the cursor is at the end of the input.
\* A call of next() yields a token if and only if unread input remains; the
\* read position never moves backwards; once a call has yielded nothing no
\* later call yields a token; the empty input yields no token and every
\* other input at least one.
C5_EndsAtEof ==
    [][/\ (last'[1] = "Some") <=> (cursor[1].chars # << >>)
       /\ (last'[1] = "None") <=> (cursor[1].chars = << >>)
       /\ (last'[1] = "Some") <=> (Len(tokens'[1]) = Len(tokens[1]) + 1)
       /\ Len(cursor'[1].chars) <= Len(cursor[1].chars)
       /\ last[1] = "None" => last'[1] = "None" /\ tokens'[1] = tokens[1]
       /\ last'[1] = "None" => ((tokens'[1] = << >>) <=> (input = << >>))]_vars

\* The sequence of an input with a NUL character in it has ended after three
\* tokens.
C5_Witness ==
    /\ Ended
    /\ Len(Toks) = 3
    /\ \E i \in 1..Len(input) : input[i] = EOF_CHAR

\* ts is a prefix of us.
IsPrefix(ts, us) == Len(ts) <= Len(us) /\ ts = SubSeq(us, 1, Len(ts))

C7_ByteLengths ==
    [][last'[1] = "Some" =>
         LET n == Len(tokens'[1])
             t == tokens'[1][n]
             consumed == SubSeq(cursor[1].chars, 1,
                                Len(cursor[1].chars) - Len(cursor'[1].chars))
         IN  /\ t.len = Len(as_bytes(consumed))
             /\ (\E i \in 1..Len(consumed) : consumed[i] >= 128) => t.len > Len(consumed)
             /\ (\A i \in 1..Len(consumed) : consumed[i] < 128) => t.len = Len(consumed)
             /\ as_bytes(SubSeq(input, 1, Len(input) - Len(cursor'[1].chars)))
                  = SubSeq(InputBytes, 1, SumLen(tokens'[1]))]_vars

\* An identifier of two characters and six bytes has been yielded.
C7_Witness ==
    /\ Len(Toks) >= 1
    /\ Toks[1].kind = Ident
    /\ Toks[1].len = 6
    /\ Len(input) - Len(Cur.chars) = 2

---------------------------------------------------------------------------
(* Properties of strip_hashbang.                                           *)

\* The input's first two bytes are `#!`.
StartsWithHashbang ==
    /\ Len(InputBytes) >= 2
    /\ InputBytes[1] = CH_HASH
    /\ InputBytes[2] = CH_BANG

\* C8: strip_hashbang returns Some if and only if the first two bytes of the
\* input are `#!`: None for the empty input, for a `#!` behind any other
\* character and for a `#!` that starts a later line.
C8_HashbangIffPrefix ==
    hashbang.called =>
        /\ hashbang.ret.some <=> StartsWithHashbang
        /\ input = << >> => hashbang.ret = None
        /\ (Len(input) >= 1 /\ input[1] # CH_HASH) => hashbang.ret = None

\* strip_hashbang has returned None for an input whose second line starts
\* with `#!`.
C8_Witness ==
    /\ hashbang.called
    /\ hashbang.ret = None
    /\ Len(input) >= 3
    /\ input[1] = CH_LF /\ input[2] = CH_HASH /\ input[3] = CH_BANG

\* The offset of the first line feed among the input's bytes, or 0.
FirstLineFeed ==
    IF \E k \in 1..Len(InputBytes) : InputBytes[k] = CH_LF
    THEN CHOOSE k \in 1..Len(InputBytes) :
            InputBytes[k] = CH_LF /\ \A j \in 1..(k - 1) : InputBytes[j] # CH_LF
    ELSE 0

\* C9: when the input starts with `#!`, strip_hashbang returns the byte
\* length n of the first line with its `#!` and without its terminator (a
\* line feed, or a carriage return and the line feed right behind it):
\* 2 <= n <= the input's byte length, n is that length when the input has no
\* line feed, and n = 2 when `#!` is followed at once by a terminator or by
\* the end of the input.
C9_HashbangLength ==
    (hashbang.called /\ StartsWithHashbang) =>
        LET n == hashbang.ret.val
            nl == FirstLineFeed
        IN  /\ hashbang.ret.some
            /\ 2 <= n /\ n <= Len(InputBytes)
            /\ nl = 0 => n = Len(InputBytes)
            /\ nl > 0 => n = IF nl > 3 /\ InputBytes[nl - 1] = CH_CR
                             THEN nl - 2 ELSE nl - 1
            /\ (nl = 3 \/ (nl = 4 /\ InputBytes[3] = CH_CR) \/ Len(InputBytes) = 2)
               => n = 2

\* strip_hashbang has returned 4 for `#!`, a two-byte character, a carriage
\* return and a line feed.
C9_Witness ==
    /\ hashbang.called
    /\ hashbang.ret = Some(4)
    /\ Len(input) = 5
    /\ input[4] = CH_CR /\ input[5] = CH_LF

---------------------------------------------------------------------------
(* Properties of numeric literals.                                         *)

\* C10: a token that starts with `0` and `x` or `X`.  When no hexadecimal
\* digit follows the prefix (or the input ends there) the token is
\* Number{Hexadecimal, empty_number: true, empty_exponent: false} of length
\* 2, whatever follows; when one does, it is a hexadecimal Number with
\* empty_number false.
C10_HexPrefix ==
    \A i \in 1..Len(Toks) :
        LET own == TokText(i)
            rest == TokRest(i)
            text == own \o rest
        IN  (Len(text) >= 2 /\ text[1] = CH_0 /\ text[2] \in {CH_x, CH_UPPER_X}) =>
                IF Len(text) >= 3 /\ is_hex_digit(text[3])
                THEN /\ IsNumber(Toks[i])
                     /\ Toks[i].kind.kind.base = "Hexadecimal"
                     /\ ~Toks[i].kind.kind.empty_number
                     /\ Toks[i].len >= 3
                ELSE /\ Toks[i] = Token(Literal(Number("Hexadecimal", TRUE, FALSE)), 2)
                     /\ own = SubSeq(text, 1, 2)
                     /\ rest = SubSeq(text, 3, Len(text))

\* `0x` before an exponent marker: the prefix is a token of its own and the
\* marker starts the next token.
C10_Witness ==
    /\ Len(Toks) >= 2
    /\ Toks[1] = Token(Literal(Number("Hexadecimal", TRUE, FALSE)), 2)
    /\ Toks[2].kind = Ident
    /\ input[3] \in {CH_p, CH_UPPER_P}

\* The newest token of run 1, its own characters, and the characters of the
\* input from its first one on.  Every token is the newest one in the state
\* its step leads to, so a property of the newest token in every state is a
\* property of every token.
NewTok == Toks[Len(Toks)]

\* The characters run 1 has read so far.
Consumed == SubSeq(input, 1, Len(input) - Len(Cur.chars))

RECURSIVE SuffixOfBytes(_, _)
\* The characters at the end of s whose UTF-8 encoding has b bytes.
SuffixOfBytes(s, b) ==
    IF b <= 0 \/ s = << >> THEN << >>
    ELSE Append(SuffixOfBytes(SubSeq(s, 1, Len(s) - 1), b - len_utf8(s[Len(s)])),
                s[Len(s)])

NewText == SuffixOfBytes(Consumed, NewTok.len)
NewFrom == NewText \o Cur.chars

\* Character k of s, or -1 behind its end.
At(s, k) == IF k >= 1 /\ k <= Len(s) THEN s[k] ELSE -1

RECURSIVE RunLen(_, _, _)
\* The length of the longest run of characters of set S in s from index k on.
RunLen(s, k, S) == IF At(s, k) \in S THEN 1 + RunLen(s, k + 1, S) ELSE 0

DecDigits == CH_0..CH_9
HexDigits == DecDigits \cup (CH_a..CH_f) \cup (CH_UPPER_A..CH_UPPER_F)

\* C11: a `0` whose next character is none of `x`, `X`, a decimal digit,
\* `.`, `e`, `E` (or that ends the input) is the token
\* Number{Decimal, empty_number: false, empty_exponent: true} of length 1,
\* and a digit `1`..`9` followed by no digit, `.`, `e` or `E` is
\* Number{Decimal, empty_number: false, empty_exponent: false} of length 1.
C11_LoneZero ==
    LET tok == NewTok
        ttext == NewText
        tfrom == NewFrom
    IN
        Len(Toks) >= 1 =>
            LET first == At(tfrom, 1)
                second == At(tfrom, 2)
            IN  /\ (/\ first = CH_0
                    /\ second \notin DecDigits \cup {CH_x, CH_UPPER_X, CH_DOT, CH_e, CH_UPPER_E})
                   => tok = Token(Literal(Number("Decimal", FALSE, TRUE)), 1)
                /\ (/\ first \in (CH_0 + 1)..CH_9
                    /\ second \notin DecDigits \cup {CH_DOT, CH_e, CH_UPPER_E})
                   => tok = Token(Literal(Number("Decimal", FALSE, FALSE)), 1)

\* `0-1`: a lone `0` with empty_exponent true, and behind the minus a lone `1`
\* with empty_exponent false.
C11_Witness ==
    /\ Len(Toks) = 3
    /\ Toks[1] = Token(Literal(Number("Decimal", FALSE, TRUE)), 1)
    /\ Toks[2].kind = Punct("Minus")
    /\ Toks[3] = Token(Literal(Number("Decimal", FALSE, FALSE)), 1)
    /\ input[3] = CH_0 + 1

\* C12: every Number token but the lone `0`.  Behind the integer part (the
\* digits of the token's base, behind `0x` when it is hexadecimal) and the
\* optional `.` with its digits, an exponent marker of the base (`e`/`E`
\* decimal, `p`/`P` hexadecimal) is consumed with one optional sign and the
\* decimal digits that follow; empty_exponent is true if and only if there
\* is such a marker and no digit follows the marker and the sign, which both
\* belong to the token; the token ends behind the last part it has.  A
\* prefix without digits (empty_number) has no exponent.
C12_EmptyExponent ==
    LET tok == NewTok
        ttext == NewText
        tfrom == NewFrom
    IN
        (Len(Toks) >= 1 /\ IsNumber(tok) /\ ttext # <<CH_0>>) =>
            LET n == tok.kind.kind
                hex == n.base = "Hexadecimal"
                digits == IF hex THEN HexDigits ELSE DecDigits
                markers == IF hex THEN {CH_p, CH_UPPER_P} ELSE {CH_e, CH_UPPER_E}
                int_end == IF hex THEN 2 + RunLen(tfrom, 3, digits)
                           ELSE RunLen(tfrom, 1, digits)
                frac_end == IF At(tfrom, int_end + 1) = CH_DOT
                            THEN int_end + 1 + RunLen(tfrom, int_end + 2, digits)
                            ELSE int_end
                marked == At(tfrom, frac_end + 1) \in markers
                sign_end == IF At(tfrom, frac_end + 2) \in {CH_PLUS, CH_MINUS}
                            THEN frac_end + 2 ELSE frac_end + 1
                exp_digits == RunLen(tfrom, sign_end + 1, DecDigits)
            IN  IF n.empty_number
                THEN ~n.empty_exponent /\ Len(ttext) = 2
                ELSE /\ n.empty_exponent <=> (marked /\ exp_digits = 0)
                     /\ tok.len = IF marked THEN sign_end + exp_digits ELSE frac_end
                     /\ ttext = SubSeq(tfrom, 1, tok.len)

\* `0xA23p-` is one hexadecimal token of length 7 with empty_exponent true.
C12_Witness ==
    /\ Len(Toks) = 1
    /\ Toks[1] = Token(Literal(Number("Hexadecimal", FALSE, TRUE)), 7)
    /\ input[7] = CH_MINUS
    /\ Ended

---------------------------------------------------------------------------
(* Properties of long brackets.                                            *)

\* The indices k of s behind index `from` at which a closer of level n
\* starts: `]`, n `=`, `]`.
Closers(s, from, n) ==
    {k \in (from + 1)..Len(s) :
        /\ s[k] = CH_RBRACKET
        /\ \A j \in 1..n : At(s, k + j) = CH_EQ
        /\ At(s, k + n + 1) = CH_RBRACKET}

\* The least element of a non-empty set of numbers.
Min(S) == CHOOSE k \in S : \A j \in S : k <= j

\* C13: a token that starts with `[`, N `=` and `[` is
\* LongString{level: N, terminated: t}; t is true if and only if the text
\* behind the opener holds a closer `]`, N `=`, `]`; the token then ends
\* right behind the earliest closer, and spans the rest of the input
\* otherwise.
C13_LongStringCloser ==
    LET tok == NewTok
        ttext == NewText
        tfrom == NewFrom
    IN
        Len(Toks) >= 1 =>
            LET N == RunLen(tfrom, 2, {CH_EQ})
                closers == Closers(tfrom, N + 2, N)
            IN  (At(tfrom, 1) = CH_LBRACKET /\ At(tfrom, N + 2) = CH_LBRACKET) =>
                    /\ tok.kind = Literal(LongString(N, closers # {}))
                    /\ Len(ttext) = IF closers # {} THEN Min(closers) + N + 1
                                      ELSE Len(tfrom)
                    /\ ttext = SubSeq(tfrom, 1, Len(ttext))

\* `[=[]==]=]a`: the level-1 string runs over `]==` to the closer `]=]`, and
\* the letter behind it is the next token.
C13_Witness ==
    /\ Len(Toks) = 2
    /\ Toks[1] = Token(Literal(LongString(1, TRUE)), 9)
    /\ Toks[2].kind = Ident
    /\ SubSeq(input, 4, 6) = <<CH_RBRACKET, CH_EQ, CH_EQ>>

\* C14: long comments scan their content as long strings do.  For a text
\* that opens a long bracket of level N, the first token of `--` and the text
\* is LongComment{terminated: t} with the t of the LongString{level: N} that
\* the text alone yields, and is 2 bytes longer; a level-1 comment whose
\* content has no `]=]` is unterminated and runs to the end of the input,
\* `]]` or not.
C14_CommentLikeString ==
    LET N == RunLen(input, 2, {CH_EQ})
        s == tokens[1][1]
        c == tokens[2][1]
    IN  (/\ Len(tokens[1]) >= 1 /\ Len(tokens[2]) >= 1
         /\ At(input, 1) = CH_LBRACKET /\ At(input, N + 2) = CH_LBRACKET) =>
            /\ s.kind.tag = "Literal"
            /\ s.kind.kind.tag = "LongString"
            /\ s.kind.kind.level = N
            /\ c.kind = LongComment(s.kind.kind.terminated)
            /\ c.len = s.len + 2
            /\ (N = 1 /\ Closers(input, 3, 1) = {}) =>
                    c = Token(LongComment(FALSE), Len(InputBytes) + 2)

\* `[=[]]` and `--[=[]]`: both runs have ended after one unterminated token,
\* of 5 and of 7 bytes.
C14_Witness ==
    /\ input = <<CH_LBRACKET, CH_EQ, CH_LBRACKET, CH_RBRACKET, CH_RBRACKET>>
    /\ last[1] = "None" /\ last[2] = "None"
    /\ tokens[1] = <<Token(Literal(LongString(1, FALSE)), 5)>>
    /\ tokens[2] = <<Token(LongComment(FALSE), 7)>>

IsLongString(t) == t.kind.tag = "Literal" /\ t.kind.kind.tag = "LongString"

\* C15 as stated: every token LongString{terminated: false} extends to the
\* end of the input.
C15_UnterminatedAtEnd ==
    \A i \in 1..Len(Toks) :
        (IsLongString(Toks[i]) /\ ~Toks[i].kind.kind.terminated)
            => TokEnd(i) = Len(InputBytes)

\* C15, amended: a token LongString{level: N, terminated: false} is one of
\* two things.  Its opener is complete (`[`, N `=`, `[`), no closer of level
\* N follows, and it extends to the end of the input; or its opener is
\* incomplete (`[` and N >= 1 `=` with no `[` behind them), and it is those
\* N + 1 characters and no more, wherever it stands.  Every incomplete opener
\* is such a token.
C15_UnterminatedLongString ==
    LET tok == NewTok
        ttext == NewText
        tfrom == NewFrom
    IN
        Len(Toks) >= 1 =>
            LET N == RunLen(tfrom, 2, {CH_EQ})
                complete == At(tfrom, N + 2) = CH_LBRACKET
            IN  /\ (IsLongString(tok) /\ ~tok.kind.kind.terminated) =>
                      /\ tok.kind.kind.level = N
                      /\ IF complete
                         THEN /\ Closers(tfrom, N + 2, N) = {}
                              /\ Cur.chars = << >>
                              /\ ttext = tfrom
                         ELSE /\ N >= 1
                              /\ tok.len = N + 1
                              /\ ttext = SubSeq(tfrom, 1, N + 1)
                              /\ Cur.chars = SubSeq(tfrom, N + 2, Len(tfrom))
                /\ (At(tfrom, 1) = CH_LBRACKET /\ N >= 1 /\ ~complete) =>
                      tok = Token(Literal(LongString(N, FALSE)), N + 1)

\* `[=a`: the unterminated LongString of level 1 is `[=`, and the letter
\* behind it is the next token.
C15_Witness ==
    /\ Len(Toks) = 2
    /\ Toks[1] = Token(Literal(LongString(1, FALSE)), 2)
    /\ Toks[2] = Token(Ident, 1)
    /\ Ended

---------------------------------------------------------------------------
(* Properties of short strings.                                            *)

IsShortString(t) == t.kind.tag = "Literal" /\ t.kind.kind.tag = "ShortString"

\* C16: a short string is unterminated only when its scan stopped in front
\* of a line feed, which then starts the next token, or at the end of the
\* input: behind every token ShortString{terminated: false} the input ends
\* or a line feed follows.
C16_StopsAtLineFeedOrEnd ==
    \A i \in 1..Len(Toks) :
        (IsShortString(Toks[i]) /\ ~Toks[i].kind.kind.terminated)
            => At(TokRest(i), 1) \in {-1, CH_LF}

RECURSIVE IsEscaped(_, _)
\* Character k of the string text s is escaped: a backslash that is not
\* itself escaped stands right before it (s[1] is the opening quote).
IsEscaped(s, k) == k >= 3 /\ At(s, k - 1) = CH_BACKSLASH /\ ~IsEscaped(s, k - 1)

\* C17: inside a short string a backslash and the character behind it are
\* one unit.  The token never ends between the two unless the input does,
\* and then it is unterminated; a terminated token ends in a quote that is
\* not escaped, so an escaped quote closes nothing; the scan does not stop
\* unterminated in front of an escaped character such as a line feed; and
\* the character behind an escaped backslash is an ordinary one: the opening
\* quote there, as anywhere unescaped, closes the string.
C17_EscapeUnit ==
    LET tok == NewTok
        ttext == NewText
        tfrom == NewFrom
    IN
        (Len(Toks) >= 1 /\ IsShortString(tok)) =>
            LET t == ttext
                n == Len(ttext)
                q == tok.kind.kind.quote
                terminated == tok.kind.kind.terminated
            IN  /\ \A k \in 2..n :
                      (t[k] = CH_BACKSLASH /\ ~IsEscaped(t, k) /\ k < Len(tfrom)) => k < n
                /\ (n >= 2 /\ t[n] = CH_BACKSLASH /\ ~IsEscaped(t, n))
                      => (n = Len(tfrom) /\ ~terminated)
                /\ terminated => (n >= 2 /\ t[n] = q /\ ~IsEscaped(t, n))
                /\ (~terminated /\ n < Len(tfrom)) => ~IsEscaped(tfrom, n + 1)
                /\ \A k \in 2..n :
                      (t[k] = q /\ ~IsEscaped(t, k)) => (k = n /\ terminated)

\* `'\'\n\\'"\`: the first string holds an escaped quote, an escaped line
\* feed and an escaped backslash and is closed by the quote behind that; the
\* second is a quote and a backslash at the end of the input.
C17_Witness ==
    /\ Ended
    /\ Toks = <<Token(Literal(ShortString(CH_SQUOTE, TRUE)), 8),
                Token(Literal(ShortString(CH_DQUOTE, FALSE)), 2)>>
    /\ SubSeq(input, 2, 7) = <<CH_BACKSLASH, CH_SQUOTE, CH_BACKSLASH, CH_LF,
                               CH_BACKSLASH, CH_BACKSLASH>>

WhitespaceChars == {CH_TAB, CH_LF, CH_VT, CH_FF, CH_CR, CH_SPACE}

\* Character k of the string text s lies in the whitespace run behind a `\z`.
InZRun(s, k) ==
    \E j \in 2..(k - 2) :
        /\ s[j] = CH_BACKSLASH /\ ~IsEscaped(s, j) /\ s[j + 1] = CH_z
        /\ \A i \in (j + 2)..k : s[i] \in WhitespaceChars

\* C18: behind the escape `\z` of a short string the longest run of
\* whitespace (tab, line feed, vertical tab, form feed, carriage return,
\* space) belongs to the token, line feeds included; behind the run the scan
\* goes on as usual (the opening quote there closes the string, the end of
\* the input leaves it unterminated, another character is content); and a
\* line feed is inside a token only there or escaped, so no other escape
\* takes a line feed that follows it.
C18_EscapeZ ==
    LET tok == NewTok
        ttext == NewText
        tfrom == NewFrom
    IN
        (Len(Toks) >= 1 /\ IsShortString(tok)) =>
            LET t == ttext
                n == Len(ttext)
                q == tok.kind.kind.quote
                terminated == tok.kind.kind.terminated
            IN  /\ \A k \in 2..n :
                      (t[k] = CH_BACKSLASH /\ ~IsEscaped(t, k) /\ At(tfrom, k + 1) = CH_z) =>
                          LET p == k + 2 + RunLen(tfrom, k + 2, WhitespaceChars) IN
                          /\ p - 1 <= n
                          /\ p > Len(tfrom) => (n = Len(tfrom) /\ ~terminated)
                          /\ At(tfrom, p) = q => (n = p /\ terminated)
                          /\ At(tfrom, p) \notin {-1, q, EOF_CHAR} => n >= p
                /\ \A k \in 2..n : t[k] = CH_LF => (IsEscaped(t, k) \/ InZRun(t, k))

\* `"\z`, a space, a line feed, a tab, `'"`: one terminated string of 8
\* characters, closed by the double quote behind the run.
C18_Witness ==
    /\ Ended
    /\ Toks = <<Token(Literal(ShortString(CH_DQUOTE, TRUE)), 8)>>
    /\ SubSeq(input, 2, 6) = <<CH_BACKSLASH, CH_z, CH_SPACE, CH_LF, CH_TAB>>

\* C19: a short string is closed by the quote that opened it and by no
\* other.  Every token that starts with `'` or `"` is a ShortString whose
\* quote field is that character; when it is terminated its last character
\* is that quote, unescaped; the other quote character is content: it is
\* never the last character of a terminated token and no scan stops in
\* front of it.
C19_SameQuote ==
    LET tok == NewTok
        ttext == NewText
        tfrom == NewFrom
    IN
        Len(Toks) >= 1 =>
            LET t == ttext
                n == Len(ttext)
                quotes == {CH_SQUOTE, CH_DQUOTE}
            IN  /\ At(tfrom, 1) \in quotes =>
                      /\ IsShortString(tok)
                      /\ tok.kind.kind.quote = tfrom[1]
                /\ IsShortString(tok) =>
                      LET q == tok.kind.kind.quote
                          terminated == tok.kind.kind.terminated
                      IN  /\ q \in quotes
                          /\ t[1] = q
                          /\ terminated => (n >= 2 /\ t[n] = q /\ ~IsEscaped(t, n))
                          /\ ~terminated => At(tfrom, n + 1) \notin quotes
                          /\ \A k \in 2..n :
                                (t[k] \in quotes \ {q} /\ k = n) => ~terminated

\* `'"a'`: a terminated string in single quotes with a double quote in it.
C19_Witness ==
    /\ Ended
    /\ Toks = <<Token(Literal(ShortString(CH_SQUOTE, TRUE)), 4)>>
    /\ input[2] = CH_DQUOTE

---------------------------------------------------------------------------
(* Properties of the dispatcher.                                           *)

\* C20: a token is Unknown if and only if its first character is `&`, `|`,
\* a backslash or an ASCII control character (U+0000..U+001F, U+007F) that
\* is no whitespace; an Unknown token is that one character and has length
\* 1; and a character that is not ASCII starts an Ident.
C20_Unknown ==
    LET tok == NewTok
        ttext == NewText
        tfrom == NewFrom
    IN
        Len(Toks) >= 1 =>
            LET first == At(tfrom, 1) IN
            /\ tok.kind = Unknown <=>
                  first \in {CH_AMP, CH_PIPE, CH_BACKSLASH}
                            \cup (((0..31) \cup {127}) \ WhitespaceChars)
            /\ tok.kind = Unknown => (tok.len = 1 /\ ttext = <<first>>)
            /\ first >= 128 => tok.kind = Ident

\* DEL before a letter: an Unknown token of length 1, then an Ident.
C20_Witness ==
    /\ Toks = <<Token(Unknown, 1), Token(Ident, 1)>>
    /\ input = <<127, CH_a>>

---------------------------------------------------------------------------
(* Properties of comments.                                                 *)

\* The number of characters of s before its first line feed.
LineLen(s) == IF find(s, CH_LF) = 0 THEN Len(s) ELSE find(s, CH_LF) - 1

IsComment(t) == t.kind.tag \in {"ShortComment", "LongComment"}

\* C21: a token that starts with `--` is a LongComment if and only if `[`,
\* a run of N >= 0 `=` and a second `[` follow the `--` at once, and then it
\* holds that opener; in every other case it is a ShortComment that is the
\* text up to the end of the line, which holds the third character when that
\* is no `[`, and the `[` and the `=` run when no second `[` follows them.
\* Comments start with `--` and nothing else does.
C21_LongCommentOpener ==
    LET tok == NewTok
        ttext == NewText
        tfrom == NewFrom
    IN
        Len(Toks) >= 1 =>
            LET N == RunLen(tfrom, 4, {CH_EQ})
                dashes == At(tfrom, 1) = CH_MINUS /\ At(tfrom, 2) = CH_MINUS
                opener == At(tfrom, 3) = CH_LBRACKET /\ At(tfrom, N + 4) = CH_LBRACKET
            IN  /\ IsComment(tok) <=> dashes
                /\ dashes =>
                      IF opener
                      THEN /\ tok.kind.tag = "LongComment"
                           /\ Len(ttext) >= N + 4
                      ELSE /\ tok.kind = ShortComment
                           /\ Len(ttext) = LineLen(tfrom)
                           /\ ttext = SubSeq(tfrom, 1, LineLen(tfrom))
                /\ (dashes /\ At(tfrom, 3) = CH_LBRACKET /\ ~opener) =>
                      /\ Len(ttext) >= N + 3
                      /\ SubSeq(ttext, 3, N + 3) = SubSeq(tfrom, 3, N + 3)

\* `--[=a]` and a line feed: the `[` and the `=` are no opener, and the short
\* comment holds them and runs over the `]` to the end of the line.
C21_Witness ==
    /\ input = <<CH_MINUS, CH_MINUS, CH_LBRACKET, CH_EQ, CH_a, CH_RBRACKET, CH_LF>>
    /\ Toks = <<Token(ShortComment, 6), Token(Whitespace, 1)>>
    /\ Ended

\* C22: a ShortComment holds no line feed.  It ends right before the first
\* line feed behind its `--`, or at the end of the input when there is none;
\* and the token behind a ShortComment is a Whitespace token whose first
\* character is that line feed.
C22_ShortCommentLine ==
    LET tok == NewTok
        ttext == NewText
        tfrom == NewFrom
    IN
        Len(Toks) >= 1 =>
            /\ tok.kind = ShortComment =>
                  /\ Len(ttext) >= 2
                  /\ \A k \in 1..Len(ttext) : ttext[k] # CH_LF
                  /\ At(tfrom, Len(ttext) + 1) \in {-1, CH_LF}
                  /\ Ended => Len(ttext) = Len(tfrom)
            /\ (Len(Toks) >= 2 /\ Toks[Len(Toks) - 1].kind = ShortComment) =>
                  /\ tok.kind = Whitespace
                  /\ At(ttext, 1) = CH_LF

\* `---[[a]]` and a line feed: a short comment of 8 characters, and the line
\* feed is the Whitespace token behind it.
C22_Witness ==
    /\ Toks = <<Token(ShortComment, 8), Token(Whitespace, 1)>>
    /\ input[3] = CH_MINUS
    /\ input[9] = CH_LF
    /\ Ended

---------------------------------------------------------------------------
(* Properties of numeric literals: the parts of a number.                  *)

\* The indices of s that hold a character of set S.
Places(s, S) == {k \in 1..Len(s) : s[k] \in S}

\* C23: the parts of a Number token.  It holds at most one `.` and at most
\* one exponent marker, and the `.` stands before the marker.  A decimal
\* token holds no `p` or `P` (it ends before one), its marker is `e` or `E`.
\* In a hexadecimal token the marker is `p` or `P`; an `e` or `E` stands
\* before the marker, among the hexadecimal digits behind `0x`, and starts no
\* exponent: without `p` or `P` empty_exponent is false.  Behind the marker
\* of either base there are one optional sign and decimal digits only, and
\* empty_exponent tells that there is no digit.
C23_ExponentMarker ==
    LET tok == NewTok
        ttext == NewText
        tfrom == NewFrom
    IN
        (Len(Toks) >= 1 /\ IsNumber(tok)) =>
            LET n == tok.kind.kind
                hex == n.base = "Hexadecimal"
                len == Len(ttext)
                dots == Places(ttext, {CH_DOT})
                es == Places(ttext, {CH_e, CH_UPPER_E})
                ps == Places(ttext, {CH_p, CH_UPPER_P})
                markers == IF hex THEN ps ELSE es
                digits == IF hex THEN HexDigits ELSE DecDigits
                body == IF hex THEN 3 ELSE 1
            IN  /\ Cardinality(dots) <= 1
                /\ Cardinality(markers) <= 1
                /\ ~hex => ps = {}
                /\ hex => /\ len >= 2 /\ ttext[1] = CH_0 /\ ttext[2] \in {CH_x, CH_UPPER_X}
                          /\ \A k \in es : k >= 3 /\ \A m \in ps : k < m
                /\ markers = {} =>
                      /\ \A k \in body..len : ttext[k] \in digits \cup {CH_DOT}
                      /\ n.empty_exponent => ttext = <<CH_0>>
                /\ \A m \in markers :
                      /\ \A k \in body..(m - 1) : ttext[k] \in digits \cup {CH_DOT}
                      /\ \A k \in (m + 1)..len :
                            \/ ttext[k] \in DecDigits
                            \/ k = m + 1 /\ ttext[k] \in {CH_PLUS, CH_MINUS}
                      /\ n.empty_exponent <=> ~\E k \in (m + 1)..len : ttext[k] \in DecDigits
                /\ ttext = SubSeq(tfrom, 1, len)

\* `0x0.1E-1p1`: `0x0.1E` is one hexadecimal token with empty_exponent false,
\* and behind the minus the decimal `1` ends before the `p`.
C23_Witness ==
    /\ Ended
    /\ Toks = <<Token(Literal(Number("Hexadecimal", FALSE, FALSE)), 6),
                Token(Punct("Minus"), 1),
                Token(Literal(Number("Decimal", FALSE, FALSE)), 1),
                Token(Ident, 2)>>
    /\ input[6] = CH_UPPER_E /\ input[9] = CH_p

---------------------------------------------------------------------------
(* Properties of identifiers and whitespace.                               *)

\* C24: identifiers are scanned by maximal munch.  A token is an Ident if
\* and only if its first character is an identifier-start character, that
\* is identifier-continue and no ASCII digit; an Ident token holds
\* identifier-continue characters only, and the character behind it, if
\* there is one, is not identifier-continue; so the token before an Ident is
\* never an Ident.  A keyword is an Ident like any other name.
C24_IdentMaximalMunch ==
    LET tok == NewTok
        ttext == NewText
        tfrom == NewFrom
    IN
        Len(Toks) >= 1 =>
            LET first == At(tfrom, 1)
                next == At(tfrom, Len(ttext) + 1)
            IN  /\ tok.kind = Ident <=> (is_ident_continue(first) /\ first \notin DecDigits)
                /\ tok.kind = Ident =>
                      /\ \A k \in 1..Len(ttext) : is_ident_continue(ttext[k])
                      /\ next # -1 => ~is_ident_continue(next)
                      /\ Len(Toks) >= 2 => Toks[Len(Toks) - 1].kind # Ident
                /\ tfrom \in {<<CH_e, CH_a + 13, CH_a + 3>>, <<CH_a + 8, CH_f>>} =>
                      (tok = Token(Ident, Len(tfrom)) /\ Cur.chars = << >>)

\* `if a0`: the keyword is an Ident of 2 characters, and the digit belongs
\* to the name behind the space.
C24_Witness ==
    /\ Ended
    /\ Toks = <<Token(Ident, 2), Token(Whitespace, 1), Token(Ident, 2)>>
    /\ input = <<CH_a + 8, CH_f, CH_SPACE, CH_a, CH_0>>

\* C25: a Whitespace token is a maximal run of characters of the set {tab,
\* line feed, vertical tab, form feed, carriage return, space}.  A token is
\* Whitespace if and only if its first character is in the set, so no other
\* character, a space character outside ASCII included, starts one; it holds
\* characters of the set only; the character behind it, if there is one, is
\* not in the set; and the token before a Whitespace token is never
\* Whitespace.
C25_WhitespaceRun ==
    LET tok == NewTok
        ttext == NewText
        tfrom == NewFrom
    IN
        Len(Toks) >= 1 =>
            LET first == At(tfrom, 1)
                next == At(tfrom, Len(ttext) + 1)
            IN  /\ tok.kind = Whitespace <=> first \in WhitespaceChars
                /\ tok.kind = Whitespace =>
                      /\ \A k \in 1..Len(ttext) : ttext[k] \in WhitespaceChars
                      /\ next \notin WhitespaceChars
                      /\ Len(ttext) = RunLen(tfrom, 1, WhitespaceChars)
                      /\ tok.len = Len(ttext)
                      /\ Len(Toks) >= 2 => Toks[Len(Toks) - 1].kind # Whitespace

\* Tab, line feed, vertical tab, form feed, carriage return and space are one
\* Whitespace token of length 6; U+3000 behind them is an Ident of 3 bytes,
\* and the space behind that a Whitespace token of its own.
C25_Witness ==
    /\ Ended
    /\ Toks = <<Token(Whitespace, 6), Token(Ident, 3), Token(Whitespace, 1)>>
    /\ input[7] = 12288

---------------------------------------------------------------------------
(* Properties of punctuation.                                              *)

\* The kinds of the punctuation tokens, by their one character.
PunctChar ==
    [c \in {CH_SEMI, CH_COMMA, CH_DOT, CH_LPAREN, CH_RPAREN, CH_LBRACE,
            CH_RBRACE, CH_LBRACKET, CH_RBRACKET, CH_HASH, CH_TILDE, CH_COLON,
            CH_EQ, CH_LT, CH_GT, CH_MINUS, CH_PLUS, CH_STAR, CH_SLASH, CH_CARET,
            CH_PERCENT} |->
        CASE c = CH_SEMI -> "Semi"
          [] c = CH_COMMA -> "Comma"
          [] c = CH_DOT -> "Dot"
          [] c = CH_LPAREN -> "OpenParen"
          [] c = CH_RPAREN -> "CloseParen"
          [] c = CH_LBRACE -> "OpenBrace"
          [] c = CH_RBRACE -> "CloseBrace"
          [] c = CH_LBRACKET -> "OpenBracket"
          [] c = CH_RBRACKET -> "CloseBracket"
          [] c = CH_HASH -> "Hash"
          [] c = CH_TILDE -> "Tilde"
          [] c = CH_COLON -> "Colon"
          [] c = CH_EQ -> "Eq"
          [] c = CH_LT -> "Lt"
          [] c = CH_GT -> "Gt"
          [] c = CH_MINUS -> "Minus"
          [] c = CH_PLUS -> "Plus"
          [] c = CH_STAR -> "Star"
          [] c = CH_SLASH -> "Slash"
          [] c = CH_CARET -> "Caret"
          [] c = CH_PERCENT -> "Percent"]

PunctKinds == {PunctChar[c] : c \in DOMAIN PunctChar}

\* The operators `..`, `...`, `::`, `~=`, `<=`, `>=`, `==` and `//`.
Operators ==
    {<<CH_DOT, CH_DOT>>, <<CH_DOT, CH_DOT, CH_DOT>>, <<CH_COLON, CH_COLON>>,
     <<CH_TILDE, CH_EQ>>, <<CH_LT, CH_EQ>>, <<CH_GT, CH_EQ>>, <<CH_EQ, CH_EQ>>,
     <<CH_SLASH, CH_SLASH>>}

\* C26: a punctuation token is one character.  A token of one of the
\* punctuation kinds has length 1, is the character of its kind, and leaves
\* the read position right behind that character, so the character the
\* dispatcher looked at starts the next token.  A punctuation character
\* yields its token whatever follows it, `-` unless a second `-` follows and
\* `[` unless `[` or `=` follows; so an operator of several characters comes
\* out as one token for each character.
C26_OneCharacterTokens ==
    LET tok == NewTok
        ttext == NewText
        tfrom == NewFrom
    IN
        Len(Toks) >= 1 =>
            LET first == At(tfrom, 1)
                second == At(tfrom, 2)
                alone == CASE first = CH_MINUS -> second # CH_MINUS
                           [] first = CH_LBRACKET -> second \notin {CH_LBRACKET, CH_EQ}
                           [] OTHER -> first \in DOMAIN PunctChar
            IN  /\ tok.kind.tag \in PunctKinds <=> alone
                /\ alone =>
                      /\ tok = Token(Punct(PunctChar[first]), 1)
                      /\ ttext = <<first>>
                      /\ Cur.chars = SubSeq(tfrom, 2, Len(tfrom))
                /\ (Ended /\ input \in Operators) =>
                      Toks = [i \in 1..Len(input) |-> Token(Punct(PunctChar[input[i]]), 1)]

\* `-[..`: Minus, OpenBracket and two Dot tokens, each of length 1.
C26_Witness ==
    /\ Ended
    /\ input = <<CH_MINUS, CH_LBRACKET, CH_DOT, CH_DOT>>
    /\ Toks = <<Token(Punct("Minus"), 1), Token(Punct("OpenBracket"), 1),
                Token(Punct("Dot"), 1), Token(Punct("Dot"), 1)>>

---------------------------------------------------------------------------
(* Properties of numeric literals: the anomaly flags.                      *)

\* C27: in a Number token empty_number and empty_exponent are never both
\* true; a token with empty_number true is hexadecimal and is the two
\* characters `0x` or `0X`; and a decimal token with empty_exponent true is
\* the lone `0` of length 1, or ends with `e` or `E`, or with `e` or `E` and
\* one sign.
C27_AnomalyFlags ==
    LET tok == NewTok
        ttext == NewText
        tfrom == NewFrom
    IN
        (Len(Toks) >= 1 /\ IsNumber(tok)) =>
            LET n == tok.kind.kind
                len == Len(ttext)
                marker == {CH_e, CH_UPPER_E}
            IN  /\ ~(n.empty_number /\ n.empty_exponent)
                /\ n.empty_number =>
                      /\ n.base = "Hexadecimal"
                      /\ tok.len = 2
                      /\ ttext \in {<<CH_0, CH_x>>, <<CH_0, CH_UPPER_X>>}
                /\ (n.base = "Decimal" /\ n.empty_exponent) =>
                      \/ tok.len = 1 /\ ttext = <<CH_0>>
                      \/ len >= 2 /\ ttext[len] \in marker
                      \/ /\ len >= 3
                         /\ ttext[len] \in {CH_PLUS, CH_MINUS}
                         /\ ttext[len - 1] \in marker

\* `1e-`: a decimal token of length 3 with empty_exponent true that ends
\* with the marker and a sign.
C27_Witness ==
    /\ Ended
    /\ input = <<CH_0 + 1, CH_e, CH_MINUS>>
    /\ Toks = <<Token(Literal(Number("Decimal", FALSE, TRUE)), 3)>>

---------------------------------------------------------------------------
(* Properties of the Cursor.                                               *)

\* C28: the operations of a Cursor, each seen from the call that was made
\* last.  peek, is_eof and len_consumed leave the Cursor as it was: the
\* unread text and the consumed length are the same.  peek returns the next
\* character, and NUL at the end of the input; when it returns NUL for a
\* character NUL that is there, is_eof is false.  consume at the end of the
\* input returns None and changes nothing, and elsewhere returns the next
\* character and moves behind it.  reset_len_consumed makes len_consumed 0
\* and leaves the unread text alone.  count_and_consume_while returns the
\* number of characters it consumed, all of which satisfy the predicate, and
\* stops before the first character that does not, or at the end of the
\* input.
C28_CursorObservers ==
    LET c == last[1]
        b == last[1].before
        now == cursor[1]
    IN  /\ c.op \in {"peek", "is_eof", "len_consumed"} =>
              /\ now.chars = b.chars
              /\ len_consumed(now) = len_consumed(b)
              /\ now = b
        /\ c.op = "peek" =>
              /\ c.ret = IF b.chars = << >> THEN EOF_CHAR ELSE b.chars[1]
              /\ b.chars = << >> => (c.ret = EOF_CHAR /\ is_eof(now))
              /\ (b.chars # << >> /\ b.chars[1] = EOF_CHAR) =>
                    (c.ret = EOF_CHAR /\ ~is_eof(now))
        /\ c.op = "is_eof" => c.ret = (b.chars = << >>)
        /\ c.op = "consume" =>
              IF b.chars = << >>
              THEN c.ret = None /\ now = b
              ELSE /\ c.ret = Some(b.chars[1])
                   /\ now.chars = Tail(b.chars)
                   /\ len_consumed(now) = len_consumed(b) + len_utf8(b.chars[1])
        /\ c.op = "reset_len_consumed" =>
              /\ len_consumed(now) = 0
              /\ now.chars = b.chars
        /\ c.op = "count_and_consume_while" =>
              /\ c.ret = Len(b.chars) - Len(now.chars)
              /\ now.chars = SubSeq(b.chars, c.ret + 1, Len(b.chars))
              /\ \A k \in 1..c.ret : call(c.arg, b.chars[k])
              /\ c.ret < Len(b.chars) => ~call(c.arg, b.chars[c.ret + 1])

\* peek on a Cursor that has consumed one character and stands before a
\* character NUL and `=`: it returns NUL, and the input has not ended.
C28_Witness ==
    /\ last[1].op = "peek"
    /\ last[1].ret = EOF_CHAR
    /\ cursor[1].chars = <<EOF_CHAR, CH_EQ>>
    /\ len_consumed(cursor[1]) = 1
    /\ ~is_eof(cursor[1])

===========================================================================
